---- MODULE Spec2Model ----
(***************************************************************************)
(* Model of ConvertList (src/ui/convertlist.cpp): the task-queue           *)
(* controller of qwinff.  The controller owns the ordered task list        *)
(* m_tasks, the tree-widget rows, the id counter prev_index, the raw       *)
(* pointer m_current_task and the flag is_busy.  Every public operation    *)
(* and every slot is one action; nested calls (task_finished_slot ->       *)
(* start -> stop -> progress_refreshed) are composed as operators over a   *)
(* record of the controller's fields, so one action is one whole handler.  *)
(*                                                                         *)
(* Indices are the code's 0-based indices; TLA+ sequences are 1-based, so  *)
(* m_tasks[i] of the code is s.m_tasks[i + 1] here.                        *)
(* A Task object is identified by its id (ids are never 0), so the raw     *)
(* pointer m_current_task is modelled as the id of the pointee, 0 = null.  *)
(* A QTreeWidgetItem is identified by the id of the task it was created    *)
(* for; its ProgressBar value and progress-column text live in the row.    *)
(***************************************************************************)
EXTENDS Integers, Sequences, FiniteSets, TLC

\* ------------------------------------------------------------------ bounds
MaxId == 3          \* addTask succeeds only while prev_index < MaxId
MaxStale == 1       \* cancelled converter runs whose finished() may still come

Params == {"a", "b"}            \* ConversionParameters values
ExitCodes == {-1, 0, 1}         \* exit codes delivered by finished(int)
Percentages == {0, 50, 100}     \* values delivered by progressRefreshed(int)

\* ------------------------------------------------------------ Task::status
QUEUED == "QUEUED"
RUNNING == "RUNNING"
FINISHED == "FINISHED"
FAILED == "FAILED"

NULL == 0           \* the null pointer of m_current_task

VARIABLES
    m_tasks,        \* QVector<TaskPtr>: sequence of [id, param, status, listitem]
    rows,           \* top-level items of the tree: sequence of [item, value, text]
    prev_index,     \* id counter
    m_current_task, \* id of the task pointed to, or NULL
    is_busy,        \* bool
    conv_live,      \* converter: a run was started and has neither finished nor been stopped
    conv_stale,     \* converter: number of stopped runs whose finished() may still arrive
    emitted,        \* signals emitted and converter calls made by the last operation, in order
    lastOp,         \* the last operation, its input, its result and the state it was called in
    assigned,       \* history: the ids handed out so far, removed tasks included
    run_open        \* history: a start_conversion was emitted and neither a
                    \* task_finished nor a stop() has followed it yet

vars == <<m_tasks, rows, prev_index, m_current_task, is_busy,
          conv_live, conv_stale, emitted, lastOp, assigned, run_open>>

\* ----------------------------------------------------------------- helpers
RemoveAt(seq, k) == SubSeq(seq, 1, k - 1) \o SubSeq(seq, k + 1, Len(seq))

RunningSet(ts) == {k \in DOMAIN ts : ts[k].status = RUNNING}
QueuedSet(ts) == {k \in DOMAIN ts : ts[k].status = QUEUED}
NumRunning(ts) == Cardinality(RunningSet(ts))
Ids(ts) == {ts[k].id : k \in DOMAIN ts}
Min(S) == CHOOSE x \in S : \A y \in S : x <= y

\* F applied to the value of x: an argument is evaluated once, at the call
Bind(x, F(_)) == CHOOSE r \in {F(v) : v \in {x}} : TRUE

\* The controller's fields as one record, threaded through nested calls.
Ctl == [m_tasks |-> m_tasks, rows |-> rows, prev_index |-> prev_index,
        m_current_task |-> m_current_task, is_busy |-> is_busy,
        conv_live |-> conv_live, conv_stale |-> conv_stale, out |-> <<>>]

\* What an observer sees at the moment a signal is emitted or a call is made.
Observed(s) == [busy |-> s.is_busy, cur |-> s.m_current_task,
                tasks |-> s.m_tasks, rows |-> s.rows]

Event(s, sig, index, param, exitcode) ==
    [sig |-> sig, index |-> index, param |-> param, exitcode |-> exitcode,
     at |-> Observed(s)]

Emit(s0, sig, index, param, exitcode) ==
    Bind(s0, LAMBDA s : (
    [s EXCEPT !.out = Append(@, Event(s, sig, index, param, exitcode))]
    ))

\* ------------------------------------------- MediaConverter (collaborator)
\* start(param): a new run is outstanding.  A run that was still live is
\* superseded; its finished() may still arrive.
converter_start(s0, param) ==
    Bind(s0, LAMBDA s : (
    LET t == Emit(s, "converter_start", -1, param, 0)
    IN  [t EXCEPT !.conv_live = TRUE,
                  !.conv_stale = IF s.conv_live /\ s.conv_stale < MaxStale
                                 THEN s.conv_stale + 1 ELSE s.conv_stale]
    ))

\* stop(): the live run, if any, is cancelled; its finished() may or may
\* not follow.
converter_stop(s0) ==
    Bind(s0, LAMBDA s : (
    LET t == Emit(s, "converter_stop", -1, "", 0)
    IN  [t EXCEPT !.conv_live = FALSE,
                  !.conv_stale = IF s.conv_live /\ s.conv_stale < MaxStale
                                 THEN s.conv_stale + 1 ELSE s.conv_stale]
    ))

\* ------------------------------------------------------------- ConvertList
\* *m_current_task: position in m_tasks of the pointee
CurrentPos(s) == CHOOSE k \in DOMAIN s.m_tasks : s.m_tasks[k].id = s.m_current_task

\* itemWidget(item, m_progress_column_index)->setValue(v)
SetValue(rs, item, v) ==
    [k \in DOMAIN rs |-> IF rs[k].item = item THEN [rs[k] EXCEPT !.value = v] ELSE rs[k]]

\* item->setText(m_progress_column_index, txt)
SetText(rs, item, txt) ==
    [k \in DOMAIN rs |-> IF rs[k].item = item THEN [rs[k] EXCEPT !.text = txt] ELSE rs[k]]

progress_refreshed(s0, percentage) ==
    Bind(s0, LAMBDA s : (
    IF s.m_current_task # NULL
    THEN [s EXCEPT !.rows = SetValue(@, s.m_tasks[CurrentPos(s)].listitem, percentage)]
    ELSE s
    ))

\* stop() that forgets to demote the task it abandons
stop_KeepsRunning(s0) ==
    Bind(s0, LAMBDA s : (
    LET a == IF s.m_current_task # NULL
             THEN [progress_refreshed(s, 0) EXCEPT !.m_current_task = NULL]
             ELSE s
        b == [a EXCEPT !.is_busy = FALSE]
    IN  converter_stop(b)
    ))

\* stop() that marks the task it abandons FAILED
stop_MarksFailed(s0) ==
    Bind(s0, LAMBDA s : (
    LET a == IF s.m_current_task # NULL
             THEN LET p == progress_refreshed(s, 0)
                  IN  [p EXCEPT !.m_tasks[CurrentPos(s)].status = FAILED,
                                !.m_current_task = NULL]
             ELSE s
        b == [a EXCEPT !.is_busy = FALSE]
    IN  converter_stop(b)
    ))

\* stop() that also announces the end of the queue
stop_EmitsAllFinished(s0) ==
    Bind(s0, LAMBDA s : (
    LET a == IF s.m_current_task # NULL
             THEN LET p == progress_refreshed(s, 0)
                  IN  [p EXCEPT !.m_tasks[CurrentPos(s)].status = QUEUED,
                                !.m_current_task = NULL]
             ELSE s
        b == [a EXCEPT !.is_busy = FALSE]
    IN  Emit(converter_stop(b), "all_tasks_finished", -1, "", 0)
    ))

stop(s0) ==
    Bind(s0, LAMBDA s : (
    LET a == IF s.m_current_task # NULL
             THEN LET p == progress_refreshed(s, 0)
                  IN  [p EXCEPT !.m_tasks[CurrentPos(s)].status = QUEUED,
                                !.m_current_task = NULL]
             ELSE s
        b == [a EXCEPT !.is_busy = FALSE]
    IN  converter_stop(b)
    ))

Max(S) == CHOOSE x \in S : \A y \in S : x >= y

\* a scan that keeps the last QUEUED task instead of returning at the first
LastQueued(ts) == IF QueuedSet(ts) = {} THEN 0 ELSE Max(QueuedSet(ts))

\* a scan that falls back to the first FAILED task when no task is QUEUED
FirstQueuedElseFailed(ts) ==
    LET F == {k \in DOMAIN ts : ts[k].status = FAILED}
    IN  IF QueuedSet(ts) # {} THEN Min(QueuedSet(ts))
        ELSE IF F # {} THEN Min(F) ELSE 0

\* the loop of start(): position of the first QUEUED task, 0 when there is none
FirstQueued(ts) == IF QueuedSet(ts) = {} THEN 0 ELSE Min(QueuedSet(ts))

\* start() that runs its scan whether or not the controller is busy
start_IgnoresBusy(s0) ==
    Bind(s0, LAMBDA s : (
    IF Len(s.m_tasks) = 0 THEN stop(s)
    ELSE IF FirstQueued(s.m_tasks) # 0
         THEN LET k == FirstQueued(s.m_tasks)
                  a == [s EXCEPT !.is_busy = TRUE,
                                 !.m_tasks[k].status = RUNNING,
                                 !.m_current_task = s.m_tasks[k].id]
                  b == converter_start(a, a.m_tasks[k].param)
              IN  Emit(b, "start_conversion", k - 1, b.m_tasks[k].param, 0)
         ELSE Emit(stop(s), "all_tasks_finished", -1, "", 0)
    ))

\* start() without the separate case for an empty list
start_NoEmptyCase(s0) ==
    Bind(s0, LAMBDA s : (
    IF s.is_busy THEN s
    ELSE IF FirstQueued(s.m_tasks) # 0
         THEN LET k == FirstQueued(s.m_tasks)
                  a == [s EXCEPT !.is_busy = TRUE,
                                 !.m_tasks[k].status = RUNNING,
                                 !.m_current_task = s.m_tasks[k].id]
                  b == converter_start(a, a.m_tasks[k].param)
              IN  Emit(b, "start_conversion", k - 1, b.m_tasks[k].param, 0)
         ELSE Emit(stop(s), "all_tasks_finished", -1, "", 0)
    ))

start(s0) ==
    Bind(s0, LAMBDA s : (
    IF s.is_busy THEN s
    ELSE IF Len(s.m_tasks) = 0 THEN stop(s)
    ELSE IF FirstQueued(s.m_tasks) # 0
         THEN LET k == FirstQueued(s.m_tasks)
                  a == [s EXCEPT !.is_busy = TRUE,
                                 !.m_tasks[k].status = RUNNING,
                                 !.m_current_task = s.m_tasks[k].id]
                  b == converter_start(a, a.m_tasks[k].param)
              IN  Emit(b, "start_conversion", k - 1, b.m_tasks[k].param, 0)
         ELSE Emit(stop(s), "all_tasks_finished", -1, "", 0)
    ))

\* task_finished_slot() that leaves the progress bar of a failed task alone
task_finished_slot_KeepsProgress(s0, exitcode) ==
    Bind(s0, LAMBDA s : (
    IF s.m_current_task # NULL
    THEN LET k == CurrentPos(s)
             item == s.m_tasks[k].listitem
             a == [s EXCEPT !.m_tasks[k].status =
                                IF exitcode = 0 THEN FINISHED ELSE FAILED]
             b == IF exitcode # 0
                  THEN [a EXCEPT !.rows = SetText(@, item, "Failed")]
                  ELSE a
             c == [b EXCEPT !.m_current_task = NULL]
             d == Emit(c, "task_finished", -1, "", exitcode)
             e == [d EXCEPT !.is_busy = FALSE]
         IN  start(e)
    ELSE s
    ))

\* task_finished_slot() that starts the next task only after a success
task_finished_slot_HaltsOnFailure(s0, exitcode) ==
    Bind(s0, LAMBDA s : (
    IF s.m_current_task # NULL
    THEN LET k == CurrentPos(s)
             item == s.m_tasks[k].listitem
             a == [s EXCEPT !.m_tasks[k].status =
                                IF exitcode = 0 THEN FINISHED ELSE FAILED]
             b == IF exitcode # 0
                  THEN [a EXCEPT !.rows = SetText(SetValue(@, item, 0), item, "Failed")]
                  ELSE a
             c == [b EXCEPT !.m_current_task = NULL]
             d == Emit(c, "task_finished", -1, "", exitcode)
             e == [d EXCEPT !.is_busy = FALSE]
         IN  IF exitcode = 0 THEN start(e) ELSE e
    ELSE s
    ))

\* task_finished_slot() that calls start() outside its test for a current task
task_finished_slot_AlwaysRestarts(s0, exitcode) ==
    Bind(s0, LAMBDA s : (
    IF s.m_current_task # NULL
    THEN LET k == CurrentPos(s)
             item == s.m_tasks[k].listitem
             a == [s EXCEPT !.m_tasks[k].status =
                                IF exitcode = 0 THEN FINISHED ELSE FAILED]
             b == IF exitcode # 0
                  THEN [a EXCEPT !.rows = SetText(SetValue(@, item, 0), item, "Failed")]
                  ELSE a
             c == [b EXCEPT !.m_current_task = NULL]
             d == Emit(c, "task_finished", -1, "", exitcode)
             e == [d EXCEPT !.is_busy = FALSE]
         IN  start(e)
    ELSE start(s)
    ))

\* task_finished_slot() that emits task_finished outside its test for a current task
task_finished_slot_AlwaysEmits(s0, exitcode) ==
    Bind(s0, LAMBDA s : (
    IF s.m_current_task # NULL
    THEN LET k == CurrentPos(s)
             item == s.m_tasks[k].listitem
             a == [s EXCEPT !.m_tasks[k].status =
                                IF exitcode = 0 THEN FINISHED ELSE FAILED]
             b == IF exitcode # 0
                  THEN [a EXCEPT !.rows = SetText(SetValue(@, item, 0), item, "Failed")]
                  ELSE a
             c == [b EXCEPT !.m_current_task = NULL]
             d == Emit(c, "task_finished", -1, "", exitcode)
             e == [d EXCEPT !.is_busy = FALSE]
         IN  start(e)
    ELSE Emit(s, "task_finished", -1, "", exitcode)
    ))

task_finished_slot(s0, exitcode) ==
    Bind(s0, LAMBDA s : (
    IF s.m_current_task # NULL
    THEN LET k == CurrentPos(s)
             item == s.m_tasks[k].listitem
             a == [s EXCEPT !.m_tasks[k].status =
                                IF exitcode = 0 THEN FINISHED ELSE FAILED]
             b == IF exitcode # 0
                  THEN [a EXCEPT !.rows = SetText(SetValue(@, item, 0), item, "Failed")]
                  ELSE a
             c == [b EXCEPT !.m_current_task = NULL]
             d == Emit(c, "task_finished", -1, "", exitcode)
             e == [d EXCEPT !.is_busy = FALSE]
         IN  start(e)
    ELSE s
    ))

\* addTask() that tests only m_probe->wait()
addTask_IgnoresError(s, param, waited, error) ==
    IF ~waited
    THEN [ctl |-> s, ret |-> FALSE]
    ELSE LET id == s.prev_index + 1
             task == [id |-> id, param |-> param, status |-> QUEUED, listitem |-> id]
             row == [item |-> id, value |-> 0, text |-> ""]
         IN  [ctl |-> [s EXCEPT !.prev_index = id,
                                !.m_tasks = Append(@, task),
                                !.rows = Append(@, row)],
              ret |-> TRUE]

\* addTask() that numbers the task by its place in the list
addTask_IdFromSize(s, param, waited, error) ==
    IF ~waited \/ error
    THEN [ctl |-> s, ret |-> FALSE]
    ELSE LET id == Len(s.m_tasks) + 1
             task == [id |-> id, param |-> param, status |-> QUEUED, listitem |-> id]
             row == [item |-> id, value |-> 0, text |-> ""]
         IN  [ctl |-> [s EXCEPT !.prev_index = id,
                                !.m_tasks = Append(@, task),
                                !.rows = Append(@, row)],
              ret |-> TRUE]

\* addTask() that inserts the new row at the top of the tree
addTask_RowFirst(s, param, waited, error) ==
    IF ~waited \/ error
    THEN [ctl |-> s, ret |-> FALSE]
    ELSE LET id == s.prev_index + 1
             task == [id |-> id, param |-> param, status |-> QUEUED, listitem |-> id]
             row == [item |-> id, value |-> 0, text |-> ""]
         IN  [ctl |-> [s EXCEPT !.prev_index = id,
                                !.m_tasks = Append(@, task),
                                !.rows = <<row>> \o @],
              ret |-> TRUE]

\* addTask; waited and error are the answers of m_probe->wait() and
\* m_probe->error().  The result record carries the return value in ret.
addTask(s, param, waited, error) ==
    IF ~waited \/ error
    THEN [ctl |-> s, ret |-> FALSE]
    ELSE LET id == s.prev_index + 1
             task == [id |-> id, param |-> param, status |-> QUEUED, listitem |-> id]
             row == [item |-> id, value |-> 0, text |-> ""]
         IN  [ctl |-> [s EXCEPT !.prev_index = id,
                                !.m_tasks = Append(@, task),
                                !.rows = Append(@, row)],
              ret |-> TRUE]

\* removeTask() without the test for a running task
removeTask_Unchecked(s, index) ==
    [s EXCEPT !.m_tasks = RemoveAt(@, index + 1),
              !.rows = RemoveAt(@, index + 1)]

\* removeTask() that forgets to take the row out of the tree
removeTask_KeepsRow(s, index) ==
    IF s.m_tasks[index + 1].status # RUNNING
    THEN [s EXCEPT !.m_tasks = RemoveAt(@, index + 1)]
    ELSE s

removeTask(s, index) ==
    IF s.m_tasks[index + 1].status # RUNNING
    THEN [s EXCEPT !.m_tasks = RemoveAt(@, index + 1),
                   !.rows = RemoveAt(@, index + 1)]
    ELSE s

isBusy == is_busy
count == Len(rows)
isEmpty == Len(rows) = 0

\* ------------------------------------------------------------------ actions
\* The record of an operation: its name, its inputs (param, n, waited, error),
\* its return value, the fields it was called with, and the task that the
\* operation before it demoted when that operation was stop() (else NULL).
Op(name, param, n, waited, error, ret) ==
    [op |-> name, param |-> param, n |-> n, waited |-> waited, error |-> error,
     ret |-> ret, cur |-> m_current_task, busy |-> is_busy,
     tasks |-> m_tasks, rows |-> rows,
     stopped |-> IF lastOp.op = "stop" THEN lastOp.cur ELSE NULL]

\* run_open after the signals and converter calls of out, in order: every
\* stop() calls m_converter->stop() once, and nothing else calls it
RECURSIVE OpenAfter(_, _)
OpenAfter(out, o) ==
    IF out = <<>> THEN o
    ELSE OpenAfter(Tail(out),
                   CASE Head(out).sig = "start_conversion" -> TRUE
                     [] Head(out).sig \in {"task_finished", "converter_stop"} -> FALSE
                     [] OTHER -> o)

Install(s, op) ==
    \E r \in {s} :
        /\ m_tasks' = r.m_tasks
        /\ rows' = r.rows
        /\ prev_index' = r.prev_index
        /\ m_current_task' = r.m_current_task
        /\ is_busy' = r.is_busy
        /\ conv_live' = r.conv_live
        /\ conv_stale' = r.conv_stale
        /\ emitted' = r.out
        /\ lastOp' = op
        /\ assigned' = assigned \cup (Ids(r.m_tasks) \ Ids(m_tasks))
        /\ run_open' = OpenAfter(r.out, run_open)

Init ==
    /\ m_tasks = <<>>
    /\ rows = <<>>
    /\ prev_index = 0
    /\ m_current_task = NULL
    /\ is_busy = FALSE
    /\ conv_live = FALSE
    /\ conv_stale = 0
    /\ emitted = <<>>
    /\ lastOp = [op |-> "init", param |-> "", n |-> 0, waited |-> TRUE,
                 error |-> FALSE, ret |-> TRUE, cur |-> NULL, busy |-> FALSE,
                 tasks |-> <<>>, rows |-> <<>>, stopped |-> NULL]
    /\ assigned = {}
    /\ run_open = FALSE

AddTask ==
    \E param \in Params, waited \in BOOLEAN, error \in BOOLEAN :
        LET r == addTask(Ctl, param, waited, error)
        IN  /\ (waited /\ ~error) => prev_index < MaxId
            /\ Install(r.ctl, Op("addTask", param, 0, waited, error, r.ret))

\* index is a valid position: the callers pass indexOfTopLevelItem(item)
RemoveTask ==
    \E index \in 0 .. Len(m_tasks) - 1 :
        Install(removeTask(Ctl, index), Op("removeTask", "", index, TRUE, FALSE, TRUE))

Start == Install(start(Ctl), Op("start", "", 0, TRUE, FALSE, TRUE))

Stop == Install(stop(Ctl), Op("stop", "", 0, TRUE, FALSE, TRUE))

\* progressRefreshed(int) of the live run, or a delayed one of a stopped run
ProgressRefreshed ==
    \E percentage \in Percentages :
        /\ conv_live \/ conv_stale > 0
        /\ Install(progress_refreshed(Ctl, percentage),
                   Op("progress_refreshed", "", percentage, TRUE, FALSE, TRUE))

\* finished(int) of the live run
TaskFinished ==
    \E exitcode \in ExitCodes :
        /\ conv_live
        /\ Install(task_finished_slot([Ctl EXCEPT !.conv_live = FALSE], exitcode),
                   Op("task_finished_slot", "", exitcode, TRUE, FALSE, TRUE))

\* finished(int) of a run that stop() cancelled, arriving late
LateFinished ==
    \E exitcode \in ExitCodes :
        /\ conv_stale > 0
        /\ Install(task_finished_slot([Ctl EXCEPT !.conv_stale = @ - 1], exitcode),
                   Op("late_finished", "", exitcode, TRUE, FALSE, TRUE))

\* a cancelled run ends without ever signalling finished(int)
NoLateFinished ==
    /\ conv_stale > 0
    /\ Install([Ctl EXCEPT !.conv_stale = @ - 1], Op("no_late_finished", "", 0, TRUE, FALSE, TRUE))

Next ==
    \/ AddTask
    \/ RemoveTask
    \/ Start
    \/ Stop
    \/ ProgressRefreshed
    \/ TaskFinished
    \/ LateFinished
    \/ NoLateFinished

Spec == Init /\ [][Next]_vars

TypeOK ==
    /\ prev_index \in 0 .. MaxId
    /\ m_current_task \in 0 .. MaxId
    /\ is_busy \in BOOLEAN
    /\ conv_live \in BOOLEAN
    /\ conv_stale \in 0 .. MaxStale
    /\ Len(m_tasks) <= MaxId
\* ------------------------------------------------------- claim vocabulary
SignalNames == {"start_conversion", "task_finished", "all_tasks_finished"}
IsSignal(e) == e.sig \in SignalNames
Signals(out) == SelectSeq(out, IsSignal)
IsConverterStart(e) == e.sig = "converter_start"
IsConverterStop(e) == e.sig = "converter_stop"
IsTaskFinished(e) == e.sig = "task_finished"
IsFinishedOp(o) == o.op \in {"task_finished_slot", "late_finished"}
\* the controller's own fields (everything but the records of the last operation)
ctlVars == <<m_tasks, rows, prev_index, m_current_task, is_busy>>
\* position of the task with the given id
PosOf(ts, id) == CHOOSE k \in DOMAIN ts : ts[k].id = id
\* value shown by the progress bar of the row of the given item
ValueOf(rs, item) == rs[CHOOSE k \in DOMAIN rs : rs[k].item = item].value

\* C1: between operations at most one task is RUNNING, and m_current_task is
\* non-null exactly when one task is RUNNING, in which case it points to it.
C1_OneRunningIsCurrent ==
    /\ NumRunning(m_tasks) <= 1
    /\ (m_current_task # NULL) <=> (NumRunning(m_tasks) = 1)
    /\ m_current_task # NULL =>
           \E k \in DOMAIN m_tasks :
               m_tasks[k].id = m_current_task /\ m_tasks[k].status = RUNNING

\* a task is running behind a finished one and ahead of a queued one, after a stop
C1_Witness ==
    /\ m_current_task # NULL
    /\ Len(m_tasks) = 3
    /\ m_tasks[1].status \in {FINISHED, FAILED}
    /\ m_tasks[2].status = RUNNING
    /\ m_tasks[2].id = m_current_task
    /\ lastOp.op = "start" /\ lastOp.stopped = m_current_task

\* C2: between operations and at the emission of every signal, isBusy() is
\* true exactly when one task is RUNNING.
C2_BusyIffRunning ==
    /\ isBusy <=> (NumRunning(m_tasks) = 1)
    /\ \A k \in DOMAIN emitted :
           IsSignal(emitted[k]) =>
               (emitted[k].at.busy <=> (NumRunning(emitted[k].at.tasks) = 1))

\* C3: start() while busy changes no field of the controller, calls nothing
\* and emits nothing; and whenever the converter is started, the only RUNNING
\* task is the one it is started for.
C3_StartWhileBusy ==
    [][ /\ (lastOp'.op = "start" /\ is_busy) =>
               (UNCHANGED <<ctlVars, conv_live, conv_stale>> /\ emitted' = <<>>)
        /\ \A k \in DOMAIN emitted' :
               IsConverterStart(emitted'[k]) =>
                   LET at == emitted'[k].at
                   IN  /\ NumRunning(at.tasks) = 1
                       /\ at.cur # NULL
                       /\ \A j \in RunningSet(at.tasks) : at.tasks[j].id = at.cur
                       /\ NumRunning(m_tasks) = 0 \/ IsFinishedOp(lastOp')
      ]_vars

\* start() was called while a task was running and another one was queued
C3_Witness ==
    /\ lastOp.op = "start"
    /\ lastOp.busy
    /\ QueuedSet(lastOp.tasks) # {}
    /\ NumRunning(lastOp.tasks) = 1
    /\ emitted = <<>>
IsStartConversion(e) == e.sig = "start_conversion"
IsAllTasksFinished(e) == e.sig = "all_tasks_finished"
\* the first QUEUED task in list order
FirstQueuedPos(ts) ==
    CHOOSE k \in DOMAIN ts :
        ts[k].status = QUEUED /\ \A j \in 1 .. k - 1 : ts[j].status # QUEUED
\* this step emits exactly one start_conversion, for the first QUEUED task of
\* the list it was called on, and that task and no other becomes RUNNING
StartsFirstQueued ==
    LET k == FirstQueuedPos(m_tasks)
        sc == SelectSeq(emitted', IsStartConversion)
    IN  /\ Len(sc) = 1
        /\ sc[1].index = k - 1
        /\ sc[1].param = m_tasks[k].param
        /\ m_tasks' = [m_tasks EXCEPT ![k].status = RUNNING]

\* C4 as stated: every start() on a list with a QUEUED task emits exactly one
\* start_conversion for the first QUEUED task, which becomes RUNNING.
C4_StartAlwaysStartsFirstQueued ==
    [][ (lastOp'.op = "start" /\ QueuedSet(m_tasks) # {}) => StartsFirstQueued ]_vars

\* C4 amended: every start() called while the controller is not busy, on a
\* list with a QUEUED task, emits exactly one start_conversion carrying the
\* position and parameters of the first QUEUED task, and that task and no
\* other becomes RUNNING.
C4_IdleStartStartsFirstQueued ==
    [][ (lastOp'.op = "start" /\ ~is_busy /\ QueuedSet(m_tasks) # {})
            => StartsFirstQueued ]_vars

\* an idle start() skipped a finished task and chose the first of two queued ones
C4_Witness ==
    /\ lastOp.op = "start"
    /\ ~lastOp.busy
    /\ Len(lastOp.tasks) = 3
    /\ lastOp.tasks[1].status \in {FINISHED, FAILED}
    /\ lastOp.tasks[2].status = QUEUED
    /\ lastOp.tasks[3].status = QUEUED
    /\ m_tasks[2].status = RUNNING
    /\ Len(emitted) = 2 /\ emitted[2].sig = "start_conversion" /\ emitted[2].index = 1

\* C5: finished(exitcode) delivered while a task is current: at the single
\* task_finished(exitcode) emission that task is FINISHED (exitcode 0) or
\* FAILED, no other task has changed, m_current_task is null and, after a
\* failure, the task's progress bar shows 0; the status and the bar stay so
\* to the end of the handler.
C5_Completion ==
    [][ (IsFinishedOp(lastOp') /\ m_current_task # NULL) =>
            LET exitcode == lastOp'.n
                k == PosOf(m_tasks, m_current_task)
                verdict == IF exitcode = 0 THEN FINISHED ELSE FAILED
                tf == SelectSeq(emitted', IsTaskFinished)
            IN  /\ Len(tf) = 1
                /\ tf[1].exitcode = exitcode
                /\ tf[1].at.cur = NULL
                /\ tf[1].at.tasks = [m_tasks EXCEPT ![k].status = verdict]
                /\ exitcode # 0 => ValueOf(tf[1].at.rows, m_tasks[k].listitem) = 0
                /\ m_tasks'[k] = [m_tasks[k] EXCEPT !.status = verdict]
                /\ m_current_task' # m_tasks[k].id
                /\ exitcode # 0 => ValueOf(rows', m_tasks[k].listitem) = 0
      ]_vars

\* a task whose bar showed progress failed while another task was still queued
C5_Witness ==
    /\ IsFinishedOp(lastOp)
    /\ lastOp.cur # NULL
    /\ lastOp.n # 0
    /\ ValueOf(lastOp.rows, lastOp.cur) > 0
    /\ QueuedSet(lastOp.tasks) # {}
    /\ m_tasks[PosOf(m_tasks, lastOp.cur)].status = FAILED

\* C6: finished(exitcode) for the current task advances the queue in the
\* same handler, whatever the exit code: after task_finished either the
\* first remaining QUEUED task is RUNNING and start_conversion was emitted
\* for it, or no QUEUED task remains, all_tasks_finished was emitted and the
\* controller is not busy.
C6_QueueAdvances ==
    [][ (IsFinishedOp(lastOp') /\ m_current_task # NULL) =>
            LET sg == Signals(emitted')
            IN  /\ Len(sg) = 2
                /\ sg[1].sig = "task_finished"
                /\ IF QueuedSet(m_tasks) # {}
                   THEN LET k == FirstQueuedPos(m_tasks)
                        IN  /\ sg[2].sig = "start_conversion"
                            /\ sg[2].index = k - 1
                            /\ sg[2].param = m_tasks[k].param
                            /\ m_tasks'[k].status = RUNNING
                            /\ m_current_task' = m_tasks[k].id
                            /\ is_busy'
                   ELSE /\ sg[2].sig = "all_tasks_finished"
                        /\ ~sg[2].at.busy
                        /\ ~is_busy'
                        /\ QueuedSet(m_tasks') = {}
      ]_vars

\* a task failed and the next queued task was started by the same handler
C6_Witness ==
    /\ IsFinishedOp(lastOp)
    /\ lastOp.cur # NULL
    /\ lastOp.n # 0
    /\ QueuedSet(lastOp.tasks) # {}
    /\ Len(emitted) = 3
    /\ emitted[1].sig = "task_finished"
    /\ emitted[3].sig = "start_conversion"
    /\ is_busy

\* C7: the status of a task that stays in the list changes only QUEUED ->
\* RUNNING (by start(), also when the finished handler calls it), RUNNING ->
\* FINISHED or FAILED (by the finished handler) and RUNNING -> QUEUED (by
\* stop()); a FINISHED or FAILED task never changes status.
C7_Transitions ==
    [][ \A k \in DOMAIN m_tasks : \A j \in DOMAIN m_tasks' :
            m_tasks[k].id = m_tasks'[j].id =>
                LET old == m_tasks[k].status
                    new == m_tasks'[j].status
                IN  \/ old = new
                    \/ /\ old = QUEUED /\ new = RUNNING
                       /\ lastOp'.op = "start" \/ IsFinishedOp(lastOp')
                    \/ /\ old = RUNNING /\ new \in {FINISHED, FAILED}
                       /\ IsFinishedOp(lastOp')
                    \/ /\ old = RUNNING /\ new = QUEUED
                       /\ lastOp'.op = "stop"
      ]_vars

\* start() ran on a list holding a FAILED task and a QUEUED one, and the
\* FAILED task is still FAILED
C7_Witness ==
    /\ lastOp.op = "start"
    /\ ~lastOp.busy
    /\ Len(lastOp.tasks) >= 2
    /\ lastOp.tasks[1].status = FAILED
    /\ m_tasks[1].status = FAILED
    /\ m_tasks[2].status = RUNNING

\* C8: stop() while a task is current sets that task QUEUED, its progress
\* bar to 0, m_current_task to null and is_busy to false, and calls the
\* converter's stop(); a start() right after it makes the same task current
\* and RUNNING again and emits start_conversion for it.
C8_StopThenStart ==
    [][ /\ (lastOp'.op = "stop" /\ m_current_task # NULL) =>
               LET k == PosOf(m_tasks, m_current_task)
               IN  /\ m_tasks' = [m_tasks EXCEPT ![k].status = QUEUED]
                   /\ ValueOf(rows', m_tasks[k].listitem) = 0
                   /\ m_current_task' = NULL
                   /\ ~is_busy'
                   /\ Len(SelectSeq(emitted', IsConverterStop)) = 1
        /\ (lastOp'.op = "start" /\ lastOp'.stopped # NULL) =>
               LET k == PosOf(m_tasks, lastOp'.stopped)
                   sc == SelectSeq(emitted', IsStartConversion)
               IN  /\ m_current_task' = lastOp'.stopped
                   /\ m_tasks'[k].status = RUNNING
                   /\ Len(sc) = 1
                   /\ sc[1].index = k - 1
                   /\ sc[1].param = m_tasks[k].param
      ]_vars

\* a running task with progress on its bar and a queued task behind it was
\* stopped, and the start() after the stop() made it current again
C8_Witness ==
    /\ lastOp.op = "start"
    /\ lastOp.stopped # NULL
    /\ m_current_task = lastOp.stopped
    /\ Len(m_tasks) >= 2
    /\ QueuedSet(m_tasks) # {}
    /\ ValueOf(rows, lastOp.stopped) = 0

\* C9: removeTask(i) on the RUNNING task changes neither the task list nor
\* the rows nor any other field of the controller, and emits nothing.
C9_RemoveRunning ==
    [][ (lastOp'.op = "removeTask" /\ m_tasks[lastOp'.n + 1].status = RUNNING) =>
            (UNCHANGED <<ctlVars, conv_live, conv_stale>> /\ emitted' = <<>>)
      ]_vars

\* removeTask was called on the running task of a list of several tasks
C9_Witness ==
    /\ lastOp.op = "removeTask"
    /\ Len(lastOp.tasks) >= 2
    /\ lastOp.tasks[lastOp.n + 1].status = RUNNING
    /\ lastOp.tasks[lastOp.n + 1].id = lastOp.cur

\* C10: addTask whose probe does not complete or reports an error returns
\* false and changes no field of the controller: no task, no row, count()
\* and prev_index as before.
C10_ProbeFailure ==
    [][ (lastOp'.op = "addTask" /\ (~lastOp'.waited \/ lastOp'.error)) =>
            /\ lastOp'.ret = FALSE
            /\ UNCHANGED <<ctlVars, conv_live, conv_stale>>
            /\ count' = count
            /\ emitted' = <<>>
      ]_vars

\* a probe that completed with an error was refused while a task was running
C10_Witness ==
    /\ lastOp.op = "addTask"
    /\ lastOp.waited /\ lastOp.error
    /\ ~lastOp.ret
    /\ lastOp.busy
    /\ Len(m_tasks) >= 1
    /\ prev_index < MaxId
\* C11: an addTask whose probe succeeds returns true, adds one to count(),
\* appends a QUEUED task (and its row) at the end of the list and gives it an
\* id greater than every id handed out before; the ids of the tasks in the
\* list are pairwise distinct at all times.
C11_AddAppendsFreshId ==
    /\ [][ (lastOp'.op = "addTask" /\ lastOp'.waited /\ ~lastOp'.error) =>
               /\ lastOp'.ret = TRUE
               /\ count' = count + 1
               /\ Len(m_tasks') = Len(m_tasks) + 1
               /\ SubSeq(m_tasks', 1, Len(m_tasks)) = m_tasks
               /\ LET task == m_tasks'[Len(m_tasks')]
                  IN  /\ task.status = QUEUED
                      /\ task.param = lastOp'.param
                      /\ \A id \in assigned : task.id > id
          ]_vars
    /\ [](\A k \in DOMAIN m_tasks : \A j \in DOMAIN m_tasks :
              m_tasks[k].id = m_tasks[j].id => k = j)

\* a task was added after an earlier task had been removed, while one was running
C11_Witness ==
    /\ lastOp.op = "addTask"
    /\ lastOp.ret
    /\ lastOp.busy
    /\ Cardinality(assigned) > Len(m_tasks)
    /\ Len(m_tasks) >= 2
    /\ m_tasks[Len(m_tasks)].status = QUEUED

\* C12: progressRefreshed or finished delivered while m_current_task is null
\* changes no field of the controller (statuses, bars, is_busy stays false),
\* emits no signal and calls nothing (start() is not invoked).
C12_StaleCallbackDiscarded ==
    [][ ((lastOp'.op = "progress_refreshed" \/ IsFinishedOp(lastOp'))
            /\ m_current_task = NULL) =>
            /\ UNCHANGED ctlVars
            /\ ~is_busy'
            /\ emitted' = <<>>
      ]_vars

\* a finished signal arrived with no current task while a task was queued
C12_Witness ==
    /\ IsFinishedOp(lastOp)
    /\ lastOp.cur = NULL
    /\ QueuedSet(lastOp.tasks) # {}
    /\ m_tasks = lastOp.tasks
    /\ ~is_busy

\* C13: the finished signal of a run that stop() cancelled changes no task's
\* status, emits no task_finished and does not advance the queue, whatever
\* happened between the stop() and its arrival.
C13_LateFinishedDiscarded ==
    [][ lastOp'.op = "late_finished" =>
            /\ m_tasks' = m_tasks
            /\ m_current_task' = m_current_task
            /\ Signals(emitted') = <<>>
      ]_vars
\* ------------------------------------------------------------ queue drain
\* The controller driven without stop() and removeTask, by a converter whose
\* every run delivers its finished signal: tasks are added (finitely many,
\* prev_index < MaxId), start() is called, and each live run reports progress
\* and eventually finishes.
LiveNext ==
    \/ AddTask
    \/ Start
    \/ ProgressRefreshed
    \/ TaskFinished

LiveSpec == Init /\ [][LiveNext]_vars /\ WF_vars(TaskFinished)

IsTerminal(t) == t.status \in {FINISHED, FAILED}
Drained ==
    /\ ~is_busy
    /\ \A k \in DOMAIN m_tasks : IsTerminal(m_tasks[k])
    /\ \E k \in DOMAIN emitted : IsAllTasksFinished(emitted[k])

\* C14: under LiveSpec, once a task is RUNNING the queue drains: eventually
\* every task is FINISHED or FAILED, all_tasks_finished has been emitted and
\* is_busy is false; and every task is started alone and in list order (all
\* tasks before it are FINISHED or FAILED, all tasks after it QUEUED).
C14_QueueDrains ==
    /\ is_busy ~> Drained
    /\ [][ \A e \in DOMAIN emitted' :
               IsStartConversion(emitted'[e]) =>
                   LET ts == emitted'[e].at.tasks
                       k == emitted'[e].index + 1
                   IN  /\ RunningSet(ts) = {k}
                       /\ \A j \in 1 .. k - 1 : IsTerminal(ts[j])
                       /\ \A j \in k + 1 .. Len(ts) : ts[j].status = QUEUED
          ]_vars

\* the last of several tasks has just finished, after one of them failed
C14_Witness ==
    /\ Drained
    /\ IsFinishedOp(lastOp)
    /\ Len(m_tasks) >= 3
    /\ \E k \in DOMAIN m_tasks : m_tasks[k].status = FAILED
    /\ \E k \in DOMAIN m_tasks : m_tasks[k].status = FINISHED
\* the names of the signals and converter calls of out, in order
SigsOf(out) == [k \in DOMAIN out |-> out[k].sig]

\* C15: start() while not busy on a list without a QUEUED task leaves tasks,
\* rows and counter alone, leaves m_current_task null and is_busy false and
\* calls the converter's stop() as stop() does; on an empty list it emits
\* nothing, on a non-empty list it then emits all_tasks_finished once.
C15_StartWithNothingQueued ==
    [][ (lastOp'.op = "start" /\ ~is_busy /\ QueuedSet(m_tasks) = {}) =>
            /\ UNCHANGED <<m_tasks, rows, prev_index>>
            /\ m_current_task' = NULL
            /\ ~is_busy'
            /\ NumRunning(m_tasks') = 0
            /\ SigsOf(emitted') = IF m_tasks = <<>>
                                  THEN <<"converter_stop">>
                                  ELSE <<"converter_stop", "all_tasks_finished">>
      ]_vars

\* start() was called on a list that removals had emptied
C15_Witness ==
    /\ lastOp.op = "start"
    /\ ~lastOp.busy
    /\ lastOp.tasks = <<>>
    /\ assigned # {}
    /\ SigsOf(emitted) = <<"converter_stop">>

\* C16: stop() with no current task leaves tasks, rows and counter alone,
\* leaves m_current_task null and is_busy false and only calls the converter's
\* stop(); a stop() right after a stop() changes no field at all.
C16_StopIdempotent ==
    [][ /\ (lastOp'.op = "stop" /\ m_current_task = NULL) =>
               /\ UNCHANGED <<m_tasks, rows, prev_index, m_current_task>>
               /\ ~is_busy'
               /\ SigsOf(emitted') = <<"converter_stop">>
        /\ (lastOp'.op = "stop" /\ lastOp.op = "stop") =>
               UNCHANGED <<ctlVars, conv_live, conv_stale>>
      ]_vars

\* a second stop() followed the stop() of a running task whose neighbour had finished
C16_Witness ==
    /\ lastOp.op = "stop"
    /\ lastOp.stopped # NULL
    /\ lastOp.cur = NULL
    /\ \E k \in DOMAIN m_tasks : m_tasks[k].status = FINISHED /\ rows[k].value > 0
    /\ m_tasks = lastOp.tasks

\* C17: the list is always FINISHED/FAILED tasks, then at most one RUNNING
\* task, then QUEUED tasks: no QUEUED task precedes a task that is not
\* QUEUED, and no RUNNING task precedes a FINISHED or FAILED one.
Rank(t) == CASE t.status \in {FINISHED, FAILED} -> 0
             [] t.status = RUNNING -> 1
             [] t.status = QUEUED -> 2
C17_ListShape ==
    /\ NumRunning(m_tasks) <= 1
    /\ \A k \in DOMAIN m_tasks : \A j \in DOMAIN m_tasks :
           k < j => Rank(m_tasks[k]) <= Rank(m_tasks[j])

\* a finished task, the running task and a queued task, after a stop() and restart
C17_Witness ==
    /\ Len(m_tasks) = 3
    /\ Rank(m_tasks[1]) = 0
    /\ Rank(m_tasks[2]) = 1
    /\ Rank(m_tasks[3]) = 2
    /\ lastOp.op = "late_finished"

\* C18: removeTask(i) of a task that is not RUNNING removes exactly the i-th
\* task and the i-th row, keeps every other task and row as it was and in
\* order, leaves is_busy, m_current_task and the counter alone and emits
\* nothing; a current task is still in the list, RUNNING.
C18_RemoveIdle ==
    [][ (lastOp'.op = "removeTask" /\ m_tasks[lastOp'.n + 1].status # RUNNING) =>
            LET i == lastOp'.n + 1
            IN  /\ Len(m_tasks') = Len(m_tasks) - 1
                /\ Len(rows') = Len(rows) - 1
                /\ \A k \in 1 .. i - 1 : m_tasks'[k] = m_tasks[k] /\ rows'[k] = rows[k]
                /\ \A k \in i .. Len(m_tasks) - 1 :
                       m_tasks'[k] = m_tasks[k + 1] /\ rows'[k] = rows[k + 1]
                /\ UNCHANGED <<is_busy, m_current_task, prev_index>>
                /\ emitted' = <<>>
                /\ m_current_task # NULL =>
                       \E k \in DOMAIN m_tasks' :
                           /\ m_tasks'[k].id = m_current_task
                           /\ m_tasks'[k].status = RUNNING
      ]_vars

\* a finished task in front of the running task was removed
C18_Witness ==
    /\ lastOp.op = "removeTask"
    /\ lastOp.n = 0
    /\ Len(lastOp.tasks) = 3
    /\ lastOp.tasks[1].status = FINISHED
    /\ lastOp.tasks[2].status = RUNNING
    /\ Len(m_tasks) = 2
    /\ m_tasks[1].id = m_current_task
    /\ m_tasks[1].status = RUNNING

\* C19: the rows and the tasks have the same length and the i-th row is the
\* item of the i-th task, so count() is the number of tasks and isEmpty()
\* holds exactly when there is none.
C19_RowsMatchTasks ==
    /\ Len(rows) = Len(m_tasks)
    /\ \A k \in DOMAIN m_tasks : k \in DOMAIN rows /\ rows[k].item = m_tasks[k].listitem
    /\ count = Len(m_tasks)
    /\ isEmpty <=> (Len(m_tasks) = 0)

\* a task was added after the first task of the list had been removed
C19_Witness ==
    /\ lastOp.op = "addTask"
    /\ lastOp.ret
    /\ Len(m_tasks) = 2
    /\ m_tasks[1].id = 2
    /\ m_tasks[2].id = 3
    /\ rows[2].item = 3
    /\ count = 2

\* C20: every task_finished is emitted while a run is open, that is after a
\* start_conversion with neither a task_finished nor a stop() in between
\* (each task_finished thus has a start_conversion of its own before it, so
\* no prefix of the trace has more task_finished than start_conversion); and
\* all_tasks_finished is never emitted while a task is RUNNING or QUEUED.
C20_EventOrder ==
    [][ \A e \in DOMAIN emitted' :
            /\ IsTaskFinished(emitted'[e]) =>
                   OpenAfter(SubSeq(emitted', 1, e - 1), run_open)
            /\ IsAllTasksFinished(emitted'[e]) =>
                   \A k \in DOMAIN emitted'[e].at.tasks :
                       emitted'[e].at.tasks[k].status \in {FINISHED, FAILED}
      ]_vars

\* a late finished signal ended the task that a start() after a stop() had
\* started, and all_tasks_finished followed
C20_Witness ==
    /\ lastOp.op = "late_finished"
    /\ lastOp.cur # NULL
    /\ SigsOf(emitted) = <<"task_finished", "converter_stop", "all_tasks_finished">>
    /\ Len(m_tasks) >= 2
====
